---------------------------- MODULE Spec2Model ----------------------------
(***************************************************************************)
(* A model of the AI2D-RST annotation engine: the Diagram class of         *)
(* utils/core/diagram.py (layout grouping, group removal, creation of      *)
(* rhetorical relations) and the helpers of utils/core_functions.py.       *)
(*                                                                         *)
(* Strings are sequences of one-character strings, so that str.upper(),    *)
(* str.lower(), str.join() and str.format() are computed, not assumed.     *)
(* A networkx Graph is a record: nodes in insertion order, the attribute   *)
(* dictionary of each node, and a set of undirected edges.                 *)
(***************************************************************************)
EXTENDS Integers, Sequences, FiniteSets, TLC

VARIABLES
    complete,      \* self.complete
    comments,      \* self.comments
    graph,         \* self.graph, the layout graph
    rst_graph,     \* the local rst_graph of annotate_rst (EmptyGraph outside it)
    rst_complete,  \* the local rst_complete of annotate_rst
    pc,            \* which command loop the session is in
    steps,         \* how many grouping, rm, new and comment commands were read
    last,          \* the command processed last and what it printed
    pre            \* the session as it was before that command

vars ==
    <<complete, comments, graph, rst_graph, rst_complete, pc, steps, last,
      pre>>

---------------------------------------------------------------------------
(* Bounds of the model.                                                    *)

\* longest token list a user types at one prompt
MaxTokens == 2

\* most grouping, rm, new and comment commands processed in one session
MaxSteps == 3

\* most relation nodes of the rhetorical graph before new commands stop
MaxRelations == 2

\* longest list of relationships in an annotation given to the graph builder
MaxConnections == 2

---------------------------------------------------------------------------
(* Python strings.                                                         *)

LowerLetters ==
    <<"a", "b", "c", "d", "e", "f", "g", "h", "i", "j", "k", "l", "m",
      "n", "o", "p", "q", "r", "s", "t", "u", "v", "w", "x", "y", "z">>
UpperLetters ==
    <<"A", "B", "C", "D", "E", "F", "G", "H", "I", "J", "K", "L", "M",
      "N", "O", "P", "Q", "R", "S", "T", "U", "V", "W", "X", "Y", "Z">>
Digits == <<"0", "1", "2", "3", "4", "5", "6", "7", "8", "9">>

upper_char(c) ==
    IF \E i \in DOMAIN LowerLetters : LowerLetters[i] = c
    THEN UpperLetters[CHOOSE i \in DOMAIN LowerLetters : LowerLetters[i] = c]
    ELSE c

lower_char(c) ==
    IF \E i \in DOMAIN UpperLetters : UpperLetters[i] = c
    THEN LowerLetters[CHOOSE i \in DOMAIN UpperLetters : UpperLetters[i] = c]
    ELSE c

\* str.upper()
upper(s) == [i \in DOMAIN s |-> upper_char(s[i])]

\* str.lower()
lower(s) == [i \in DOMAIN s |-> lower_char(s[i])]

\* sep.join(list)
RECURSIVE join(_, _)
join(sep, list) ==
    IF list = <<>> THEN <<>>
    ELSE IF Len(list) = 1 THEN list[1]
    ELSE list[1] \o sep \o join(sep, Tail(list))

\* str(i) for a natural number i
RECURSIVE decimal(_)
decimal(i) ==
    IF i < 10 THEN <<Digits[i + 1]>>
    ELSE decimal(i \div 10) \o <<Digits[(i % 10) + 1]>>

\* "g{}".format(i), "r{}".format(i)
format(prefix, i) == prefix \o decimal(i)

\* [f(x) for x in list]
lower_all(list) == [i \in DOMAIN list |-> lower(list[i])]

\* set(list)
set(list) == {list[i] : i \in DOMAIN list}

---------------------------------------------------------------------------
(* networkx.Graph.                                                         *)

EmptyGraph == [nodes |-> <<>>, attr |-> <<>>, edges |-> {}]

has_node(G, n) == \E i \in DOMAIN G.nodes : G.nodes[i] = n

\* merge of attribute dictionaries: dict.update(new)
update(old, new) == new @@ old

\* add_node that appends the node whether or not the graph has it
add_node_append(G, n, attrs) ==
    [G EXCEPT !.nodes = Append(G.nodes, n),
              !.attr = (n :> attrs) @@ G.attr]

\* Graph.add_node(n, **attrs): a new node is appended, an existing node keeps
\* its place and has its attribute dictionary updated
add_node(G, n, attrs) ==
    IF has_node(G, n)
    THEN [G EXCEPT !.attr = [m \in DOMAIN G.attr |->
                                IF m = n THEN update(G.attr[m], attrs)
                                ELSE G.attr[m]]]
    ELSE [G EXCEPT !.nodes = Append(G.nodes, n),
                   !.attr = (n :> attrs) @@ G.attr]

\* Graph.add_edge(u, v): an endpoint that is not yet a node is added as a
\* node with no attributes
add_edge(G, u, v) ==
    LET G1 == IF has_node(G, u) THEN G ELSE add_node(G, u, <<>>)
        G2 == IF has_node(G1, v) THEN G1 ELSE add_node(G1, v, <<>>)
    IN  [G2 EXCEPT !.edges = G2.edges \cup {{u, v}}]

\* add_edges whose loop leaves out the last pair
RECURSIVE add_edges_short(_, _)
add_edges_short(G, pairs) ==
    IF Len(pairs) <= 1 THEN G
    ELSE add_edges_short(add_edge(G, pairs[1][1], pairs[1][2]), Tail(pairs))

\* a sequence of add_edge calls, one per pair of the list
RECURSIVE add_edges(_, _)
add_edges(G, pairs) ==
    IF pairs = <<>> THEN G
    ELSE add_edges(add_edge(G, pairs[1][1], pairs[1][2]), Tail(pairs))

\* the sub-sequence of the elements that satisfy keep
RECURSIVE filter_seq(_, _)
filter_seq(seq, keep) ==
    IF seq = <<>> THEN <<>>
    ELSE IF seq[1] \in keep THEN <<seq[1]>> \o filter_seq(Tail(seq), keep)
    ELSE filter_seq(Tail(seq), keep)

\* remove_nodes_from that removes the edges of the nodes and keeps the nodes
remove_nodes_from_edges_only(G, list) ==
    [G EXCEPT !.edges = {e \in G.edges : e \cap set(list) = {}}]

\* Graph.remove_nodes_from(list): nodes of the list that are in the graph are
\* removed with their edges, the others are ignored
remove_nodes_from(G, list) ==
    LET gone == set(list)
        left == {G.nodes[i] : i \in DOMAIN G.nodes} \ gone
    IN  [nodes |-> filter_seq(G.nodes, left),
         attr  |-> [m \in left |-> G.attr[m]],
         edges |-> {e \in G.edges : e \cap gone = {}}]

\* nx.get_node_attributes(graph, 'kind'): the keys, in node order, of the
\* nodes that carry the attribute
kind_keys(G) ==
    filter_seq(G.nodes, {n \in DOMAIN G.attr : "kind" \in DOMAIN G.attr[n]})

node_set(G) == {G.nodes[i] : i \in DOMAIN G.nodes}


---------------------------------------------------------------------------
(* The parsed AI2D annotation of the diagram and the graph built from it.  *)

\* the element identifiers of the diagram, by category
Annotation ==
    [blobs         |-> << <<"B", "1">> >>,
     arrows        |-> << <<"A", "1">> >>,
     text          |-> << <<"T", "1">> >>,
     arrowHeads    |-> << <<"H", "1">> >>,
     containers    |-> << >>,
     imageConsts   |-> << <<"I", "0">>, <<"I", "1">> >>,
     relationships |-> << >>]

\* the categories in the order parse_annotation reads them
ParseTargets ==
    <<"blobs", "arrows", "text", "arrowHeads", "containers", "imageConsts">>

\* the categories in the order extract_element_type searches them
TypeTargets ==
    <<"arrowHeads", "arrows", "blobs", "text", "containers", "imageConsts">>

\* [i for sublist in lists for i in sublist]
RECURSIVE flatten(_)
flatten(lists) ==
    IF lists = <<>> THEN <<>> ELSE lists[1] \o flatten(Tail(lists))

\* Annotate.parse_annotation: the element identifiers of every category and
\* the relationships. A category that is absent raises KeyError, which is
\* caught and passed over, and the return statement then reads a local
\* variable that was never assigned (UnboundLocalError); the same holds for
\* absent relationships.
parse_annotation(annotation) ==
    IF \A i \in DOMAIN ParseTargets : ParseTargets[i] \in DOMAIN annotation
    THEN IF "relationships" \in DOMAIN annotation
         THEN [raised |-> FALSE,
               diagram_elements |->
                   flatten([i \in DOMAIN ParseTargets |->
                               annotation[ParseTargets[i]]]),
               relations |-> annotation["relationships"]]
         ELSE [raised |-> TRUE, diagram_elements |-> <<>>, relations |-> <<>>]
    ELSE [raised |-> TRUE, diagram_elements |-> <<>>, relations |-> <<>>]

\* the categories extract_element_type searches for one element: those
\* before the first absent one, where KeyError ends the search
searched(annotation) ==
    {i \in DOMAIN TypeTargets :
        \A j \in 1..i : TypeTargets[j] \in DOMAIN annotation}

\* Annotate.extract_element_type: the category of each element; a later
\* category of TypeTargets overwrites an earlier one, and an element found
\* in no searched category has no entry
extract_element_type(elements, annotation) ==
    LET hits(e) == {i \in searched(annotation) :
                       e \in set(annotation[TypeTargets[i]])}
    IN  [e \in {x \in set(elements) : hits(x) # {}} |->
            TypeTargets[CHOOSE i \in hits(e) : \A j \in hits(e) : j <= i]]

\* the node part of Draw.draw_graph_from_annotation: one node per element,
\* in element order, arrowheads left out on request
RECURSIVE add_elements(_, _, _)
add_elements(G, elements, element_types) ==
    IF elements = <<>> THEN G
    ELSE add_elements(
            IF elements[1] \in DOMAIN element_types
            THEN add_node(G, elements[1],
                          [kind |-> element_types[elements[1]]])
            ELSE G,
            Tail(elements), element_types)

\* what one relationship adds: the graph and the arrowmap after it
add_relation(state, attributes) ==
    LET tail == attributes.category = "arrowHeadTail"
        G1 == IF tail
              THEN add_edge(state.graph, attributes.origin,
                            attributes.destination)
              ELSE state.graph
        arrowmap == IF tail
                    THEN (attributes.origin :> attributes.destination)
                             @@ state.arrowmap
                    ELSE state.arrowmap
        G2 == IF "connector" \notin DOMAIN attributes
              THEN add_edge(G1, attributes.origin, attributes.destination)
              ELSE IF attributes.connector = <<>>
              THEN G1
              ELSE IF attributes.connector \in DOMAIN arrowmap
              THEN add_edge(add_edge(G1, attributes.origin,
                                     attributes.connector),
                            arrowmap[attributes.connector],
                            attributes.destination)
              ELSE add_edge(add_edge(G1, attributes.origin,
                                     attributes.connector),
                            attributes.connector, attributes.destination)
    IN  [graph |-> G2, arrowmap |-> arrowmap]

\* the edge part of Draw.draw_graph_from_annotation: the relationships in
\* the order of the annotation
RECURSIVE add_relations(_, _)
add_relations(state, relations) ==
    IF relations = <<>> THEN state
    ELSE add_relations(add_relation(state, relations[1]), Tail(relations))

\* Draw.draw_graph_from_annotation(annotation, draw_edges, draw_arrowheads),
\* up to the graph: the graph, or raised when parse_annotation raises
draw_graph_from_annotation(annotation, draw_edges, draw_arrowheads) ==
    LET parsed == parse_annotation(annotation)
        all_types == extract_element_type(parsed.diagram_elements,
                                          annotation)
        kept == IF draw_arrowheads THEN DOMAIN all_types
                ELSE {k \in DOMAIN all_types : all_types[k] # "arrowHeads"}
        element_types == [k \in kept |-> all_types[k]]
        nodes == add_elements(EmptyGraph, parsed.diagram_elements,
                              element_types)
    IN  IF parsed.raised THEN [raised |-> TRUE, graph |-> EmptyGraph]
        ELSE [raised |-> FALSE,
              graph |-> IF draw_edges
                        THEN add_relations(
                                 [graph |-> nodes, arrowmap |-> <<>>],
                                 parsed.relations).graph
                        ELSE nodes]

\* create_graph(annotation, edges=False, arrowheads=False)
create_graph(annotation) ==
    draw_graph_from_annotation(annotation, FALSE, FALSE).graph

---------------------------------------------------------------------------
(* Node dictionaries and aliases.                                          *)

\* the kind of node n
kind_of(G, n) == G.attr[n]["kind"]

\* the keys of get_node_dict(graph, kind='relation'), in node order
relation_keys(G) ==
    filter_seq(kind_keys(G),
               {n \in set(kind_keys(G)) : kind_of(G, n) = "relation"})

\* get_node_dict(graph, kind): for 'group', 'node' and 'relation' the keys of
\* the returned dictionary in order (each key maps to itself); otherwise the
\* dictionary of node kinds
get_node_dict(G, kind) ==
    LET keys == kind_keys(G)
    IN  IF kind = "group"
        THEN filter_seq(keys, {n \in set(keys) : kind_of(G, n) = "group"})
        ELSE IF kind = "node"
        THEN filter_seq(keys, {n \in set(keys) : kind_of(G, n) # "group"})
        ELSE IF kind = "relation"
        THEN relation_keys(G)
        ELSE [n \in set(keys) |-> kind_of(G, n)]

\* enumerate that counts from the end of the dictionary
enumerate_from_end(prefix, keys) ==
    [a \in {format(prefix, i) : i \in DOMAIN keys} |->
        keys[Len(keys) + 1
               - (CHOOSE i \in DOMAIN keys : format(prefix, i) = a)]]

\* enumerate that counts from 0, as without start=1
enumerate_from_zero(prefix, keys) ==
    [a \in {format(prefix, i - 1) : i \in DOMAIN keys} |->
        keys[CHOOSE i \in DOMAIN keys : format(prefix, i - 1) = a]]

\* {"g{}".format(i): k for i, (k, v) in enumerate(dict.items(), start=1)}:
\* the alias dictionary of a key list, as a function from alias to key
enumerate(prefix, keys) ==
    [a \in {format(prefix, i) : i \in DOMAIN keys} |->
        keys[CHOOSE i \in DOMAIN keys : format(prefix, i) = a]]

group_dict(G) == enumerate(<<"g">>, get_node_dict(G, "group"))

relation_ix(G) == enumerate(<<"r">>, get_node_dict(G, "relation"))

---------------------------------------------------------------------------
(* The Group Operator.                                                     *)

\* [(valid_elem.upper(), target) for valid_elem in user_input]
edges_to(user_input, target) ==
    [i \in DOMAIN user_input |-> <<upper(user_input[i]), target>>]

\* const_edges that stops at the first imageConsts node
RECURSIVE const_edges_first(_, _, _)
const_edges_first(keys, node_dict, user_input) ==
    IF keys = <<>> THEN <<>>
    ELSE IF node_dict[keys[1]] = "imageConsts"
    THEN edges_to(user_input, upper(keys[1]))
    ELSE const_edges_first(Tail(keys), node_dict, user_input)

\* the imageConsts branch of group_nodes: for every imageConsts node, in
\* dictionary order, an edge from every member to it
RECURSIVE const_edges(_, _, _)
const_edges(keys, node_dict, user_input) ==
    IF keys = <<>> THEN <<>>
    ELSE (IF node_dict[keys[1]] = "imageConsts"
          THEN edges_to(user_input, upper(keys[1]))
          ELSE <<>>) \o const_edges(Tail(keys), node_dict, user_input)

\* group_name that joins the members in reverse order
group_name_reversed(user_input) ==
    upper(join(<<"+">>,
               [i \in DOMAIN user_input |->
                   user_input[Len(user_input) + 1 - i]]))

\* the name generated for a group node
group_name(user_input) == upper(join(<<"+">>, user_input))

\* group_nodes that looks up only the members the graph has, and groups
\* whatever it is given
group_nodes_lenient(self_graph, G, user_input) ==
    LET node_dict == get_node_dict(G, "all")
    IN  IF \E i \in DOMAIN user_input :
               /\ upper(user_input[i]) \in DOMAIN node_dict
               /\ node_dict[upper(user_input[i])] = "imageConsts"
        THEN [raised |-> FALSE,
              graph |-> add_edges(self_graph,
                            const_edges(kind_keys(G), node_dict, user_input))]
        ELSE LET new_node == group_name(user_input)
             IN  [raised |-> FALSE,
                  graph |-> add_edges(
                                add_node(self_graph, new_node,
                                         [kind |-> "group"]),
                                edges_to(user_input, new_node))]

\* Diagram.group_nodes(self, graph, user_input): the kinds are looked up in
\* the graph passed as argument, nodes and edges are added to self.graph.
\* The result is the new self.graph, or raised when node_dict[u.upper()]
\* raises KeyError (nothing has been written then).
group_nodes(self_graph, G, user_input) ==
    LET node_dict == get_node_dict(G, "all")
    IN  IF \E i \in DOMAIN user_input :
               upper(user_input[i]) \notin DOMAIN node_dict
        THEN [raised |-> TRUE, graph |-> self_graph]
        ELSE IF \E i \in DOMAIN user_input :
                    node_dict[upper(user_input[i])] = "imageConsts"
        THEN [raised |-> FALSE,
              graph |-> add_edges(self_graph,
                            const_edges(kind_keys(G), node_dict, user_input))]
        ELSE LET new_node == group_name(user_input)
             IN  [raised |-> FALSE,
                  graph |-> add_edges(
                                add_node(self_graph, new_node,
                                         [kind |-> "group"]),
                                edges_to(user_input, new_node))]

\* Annotate.group_nodes(graph, user_input): the kinds are looked up in the
\* graph passed as argument and the nodes and edges are added to that graph,
\* which is returned; raised when node_dict[u.upper()] raises KeyError
annotate_group_nodes(G, user_input) ==
    LET node_dict == get_node_dict(G, "all")
    IN  IF \E i \in DOMAIN user_input :
               upper(user_input[i]) \notin DOMAIN node_dict
        THEN [raised |-> TRUE, graph |-> G]
        ELSE IF \E i \in DOMAIN user_input :
                    node_dict[upper(user_input[i])] = "imageConsts"
        THEN [raised |-> FALSE,
              graph |-> add_edges(G, const_edges(kind_keys(G), node_dict,
                                                 user_input))]
        ELSE LET new_node == group_name(user_input)
             IN  [raised |-> FALSE,
                  graph |-> add_edges(
                                add_node(G, new_node, [kind |-> "group"]),
                                edges_to(user_input, new_node))]

---------------------------------------------------------------------------
(* The Relation Operator.                                                  *)

\* rst_relations: the catalog of rhetorical relations
rst_relations ==
    [cyclic      |-> [name |-> "cyclic sequence", kind |-> "mono"],
     elaboration |-> [name |-> "elaboration", kind |-> "mono"],
     joint       |-> [name |-> "joint", kind |-> "multi"]]

\* valid_ids of create_relation: the lower-cased keys of the node dictionary
\* and the relation aliases
valid_ids(G) ==
    set(lower_all(get_node_dict(G, "node")))
        \cup {lower(r) : r \in DOMAIN relation_ix(G)}

\* origin that never looks the token up among the relation aliases
origin_as_typed(G, s) == upper(s)

\* the origin of the edge drawn for a satellite or for one of the nuclei: the
\* relation an alias stands for, otherwise the upper-cased token
origin(G, s) ==
    IF s \in DOMAIN relation_ix(G) THEN relation_ix(G)[s] ELSE upper(s)

\* the origin of the edge drawn for the nucleus of a mononuclear relation
nucleus_origin(G, n) == upper(n)

\* what create_relation returns to the command loop: the graph, what was
\* printed, and how many prompts were answered
Returned(G, out, prompts) == [graph |-> G, out |-> out, prompts |-> prompts]

\* check_nucleus with the two checks in the other order
check_nucleus_valid_first(G, nucleus_in) ==
    LET nucleus == lower_all(nucleus_in)
    IN  IF ~(set(nucleus) \subseteq valid_ids(G)) THEN "invalid_nucleus"
        ELSE IF Len(nucleus) # 1 THEN "nucleus_err"
        ELSE "go"

\* the mononuclear path up to the satellite prompt: "go" when the nucleus
\* input passes both checks, otherwise the error printed
check_nucleus(G, nucleus_in) ==
    LET nucleus == lower_all(nucleus_in)
    IN  IF Len(nucleus) # 1 THEN "nucleus_err"
        ELSE IF ~(set(nucleus) \subseteq valid_ids(G)) THEN "invalid_nucleus"
        ELSE "go"

\* check_satellites that is content with one valid satellite
check_satellites_any(G, satellites_in) ==
    IF satellites_in # <<>>
       /\ set(lower_all(satellites_in)) \cap valid_ids(G) = {}
    THEN "invalid_satellite"
    ELSE "go"

\* the check of the satellite input
check_satellites(G, satellites_in) ==
    IF ~(set(lower_all(satellites_in)) \subseteq valid_ids(G))
    THEN "invalid_satellite"
    ELSE "go"

\* check_nuclei that lets a single nucleus pass
check_nuclei_one(G, nuclei_in) ==
    LET nuclei == lower_all(nuclei_in)
    IN  IF Len(nuclei) < 1 THEN "nuclei_err"
        ELSE IF ~(set(nuclei) \subseteq valid_ids(G)) THEN "invalid_nuclei"
        ELSE "go"

\* the two checks of the nuclei input
check_nuclei(G, nuclei_in) ==
    LET nuclei == lower_all(nuclei_in)
    IN  IF Len(nuclei) <= 1 THEN "nuclei_err"
        ELSE IF ~(set(nuclei) \subseteq valid_ids(G)) THEN "invalid_nuclei"
        ELSE "go"

\* mono_name without the upper-casing
mono_name_as_typed(nucleus, satellites) ==
    join(<<>>, nucleus) \o <<"-">> \o join(<<"+">>, satellites)

\* the name generated for a mononuclear relation
mono_name(nucleus, satellites) ==
    upper(join(<<>>, nucleus)) \o <<"-">> \o upper(join(<<"+">>, satellites))

\* multi_name with the separator of the mononuclear name
multi_name_dash(nuclei) == upper(join(<<"-">>, nuclei))

\* the name generated for a multinuclear relation
multi_name(nuclei) == upper(join(<<"+">>, nuclei))

\* the mononuclear path of create_relation
create_mono(G, relation_name, nucleus_in, satellites_in) ==
    LET nucleus == lower_all(nucleus_in)
        satellites == lower_all(satellites_in)
    IN  IF check_nucleus(G, nucleus_in) # "go"
        THEN Returned(G, check_nucleus(G, nucleus_in), 1)
        ELSE IF check_satellites(G, satellites_in) # "go"
        THEN Returned(G, check_satellites(G, satellites_in), 2)
        ELSE LET new_relation == mono_name(nucleus, satellites)
                 G1 == add_node(G, new_relation,
                                [kind       |-> "relation",
                                 nucleus    |-> nucleus,
                                 satellites |-> satellites,
                                 name       |-> relation_name,
                                 id         |-> new_relation])
                 G2 == add_edges(G1,
                          [i \in DOMAIN satellites |->
                              <<origin(G, satellites[i]), new_relation>>])
                 G3 == add_edges(G2,
                          [i \in DOMAIN nucleus |->
                              <<nucleus_origin(G, nucleus[i]), new_relation>>])
             IN  Returned(G3, "ok", 2)

\* the multinuclear path of create_relation
create_multi(G, relation_name, nuclei_in) ==
    LET nuclei == lower_all(nuclei_in)
    IN  IF check_nuclei(G, nuclei_in) # "go"
        THEN Returned(G, check_nuclei(G, nuclei_in), 1)
        ELSE LET new_relation == multi_name(nuclei)
                 G1 == add_node(G, new_relation,
                                [kind   |-> "relation",
                                 nuclei |-> nuclei,
                                 name   |-> relation_name,
                                 id     |-> new_relation])
                 G2 == add_edges(G1,
                          [i \in DOMAIN nuclei |->
                              <<origin(G, nuclei[i]), new_relation>>])
             IN  Returned(G2, "ok", 1)

---------------------------------------------------------------------------
(* What the user types.                                                    *)

\* tokens typed at the layout prompt, already split at ',' and stripped:
\* element ids in lower and in upper case, a group alias, the lower-cased id
\* of a group
LayoutTokens ==
    {<<"b", "1">>, <<"t", "1">>, <<"i", "0">>, <<"g", "1">>, <<"B", "1">>,
     <<"b", "1", "+", "t", "1">>}

\* tokens typed after 'rm'
RmTokens == {<<"g", "1">>, <<"G", "2">>, <<"b", "1">>}

\* tokens typed at the nucleus, satellite and nuclei prompts: element ids in
\* lower and in upper case, a relation alias, the lower-cased id of a
\* relation, and a token that names nothing
RstTokens == {<<"b", "1">>, <<"T", "1">>, <<"r", "1">>, <<"z", "z">>}

\* the smaller pools of the specification of the whole session
SessionLayoutTokens == {<<"b", "1">>, <<"t", "1">>, <<"B", "1">>}
SessionRmTokens == {<<"g", "1">>, <<"b", "1">>}
SessionRstTokens ==
    {<<"a", "1">>, <<"r", "1">>, <<"b", "1", "+", "t", "1">>, <<"z", "z">>}

\* relation names typed at the relation prompt, stripped and lower-cased
RelationInputs == {"cyclic", "elaboration", "joint", "bogus"}

\* comments typed at the comment prompt
CommentInputs == {"c", "d"}

\* the lists of least to MaxTokens tokens of a pool
TokenLists(pool, least) ==
    UNION {[1..n -> pool] : n \in least..MaxTokens}

---------------------------------------------------------------------------
(* The session: Diagram.__init__, annotate_layout and annotate_rst.        *)

\* the record of a processed command
Cmd(cmd, key, tokens, nucleus, satellites, out, prompts) ==
    [cmd |-> cmd, key |-> key, tokens |-> tokens, nucleus |-> nucleus,
     satellites |-> satellites, out |-> out, prompts |-> prompts]

Simple(cmd) == Cmd(cmd, "", <<>>, <<>>, <<>>, "ok", 1)

Snapshot ==
    [graph |-> graph, rst_graph |-> rst_graph, comments |-> comments,
     complete |-> complete, rst_complete |-> rst_complete]

\* Diagram.__init__
Init ==
    /\ complete = FALSE
    /\ comments = <<>>
    /\ graph = create_graph(Annotation)
    /\ rst_graph = EmptyGraph
    /\ rst_complete = FALSE
    /\ pc = "idle"
    /\ steps = 0
    /\ last = Simple("init")
    /\ pre = [graph |-> create_graph(Annotation), rst_graph |-> EmptyGraph,
              comments |-> <<>>, complete |-> FALSE, rst_complete |-> FALSE]

\* annotate_layout whose loop is entered whatever self.complete is
EnterLayout_always ==
    /\ pc = "idle"
    /\ pc' = "layout"
    /\ last' = Simple("annotate_layout")
    /\ pre' = Snapshot
    /\ UNCHANGED <<steps, complete, comments, graph, rst_graph, rst_complete>>

\* a call of annotate_layout: the loop is entered unless self.complete, and
\* then the method returns at once
EnterLayout ==
    /\ pc = "idle"
    /\ pc' = IF complete THEN "idle" ELSE "layout"
    /\ last' = Simple("annotate_layout")
    /\ pre' = Snapshot
    /\ UNCHANGED <<steps, complete, comments, graph, rst_graph, rst_complete>>

\* the head of the layout loop after a command: the graph is drawn and the
\* next input is awaited
LayoutLoop ==
    /\ pc = "layout_loop"
    /\ ~complete
    /\ pc' = "layout"
    /\ last' = Simple("prompt")
    /\ pre' = Snapshot
    /\ UNCHANGED <<steps, complete, comments, graph, rst_graph, rst_complete>>

\* valid_elems of annotate_layout
valid_elems(G) ==
    set(lower_all(G.nodes)) \cup {lower(g) : g \in DOMAIN group_dict(G)}

\* [group_dict[u] if u in valid_groups else u for u in user_input]
replace_aliases(G, user_input) ==
    [i \in DOMAIN user_input |->
        IF user_input[i] \in {lower(g) : g \in DOMAIN group_dict(G)}
        THEN group_dict(G)[user_input[i]]
        ELSE user_input[i]]

\* a list of identifiers at the layout prompt (none of the tokens contains
\* 'rm', which would send the input to the removal branch)
LayoutGroup(inputs) ==
    /\ pc = "layout"
    /\ steps < MaxSteps
    /\ steps' = steps + 1
    /\ \E user_input \in inputs :
          IF set(user_input) \subseteq valid_elems(graph)
          THEN LET r == group_nodes(graph, graph,
                                    replace_aliases(graph, user_input))
               IN  /\ graph' = r.graph
                   /\ pc' = IF r.raised THEN "raised" ELSE "layout_loop"
                   /\ last' = Cmd("group", "", user_input, <<>>, <<>>,
                                  IF r.raised THEN "KeyError" ELSE "ok", 1)
          ELSE /\ graph' = graph
               /\ pc' = "layout_loop"
               /\ last' = Cmd("group", "", user_input, <<>>, <<>>,
                              "invalid", 1)
    /\ pre' = Snapshot
    /\ UNCHANGED <<complete, comments, rst_graph, rst_complete>>

\* LayoutRm that removes the groups of the tokens that are aliases when
\* other tokens are not
LayoutRm_partial(inputs) ==
    /\ pc = "layout"
    /\ steps < MaxSteps
    /\ steps' = steps + 1
    /\ \E typed \in inputs :
          LET user_input == lower_all(typed)
              named == filter_seq(user_input, DOMAIN group_dict(graph))
          IN  /\ graph' = remove_nodes_from(graph,
                               [i \in DOMAIN named |->
                                   group_dict(graph)[named[i]]])
              /\ last' = Cmd("rm", "", typed, <<>>, <<>>,
                             IF set(user_input) \subseteq
                                    DOMAIN group_dict(graph)
                             THEN "ok" ELSE "invalid", 1)
    /\ pc' = "layout_loop"
    /\ pre' = Snapshot
    /\ UNCHANGED <<complete, comments, rst_graph, rst_complete>>

\* 'rm' followed by group aliases
LayoutRm(inputs) ==
    /\ pc = "layout"
    /\ steps < MaxSteps
    /\ steps' = steps + 1
    /\ \E typed \in inputs :
          LET user_input == lower_all(typed)
          IN  IF set(user_input) \subseteq DOMAIN group_dict(graph)
              THEN /\ graph' = remove_nodes_from(graph,
                                  [i \in DOMAIN user_input |->
                                      group_dict(graph)[user_input[i]]])
                   /\ last' = Cmd("rm", "", typed, <<>>, <<>>, "ok", 1)
              ELSE /\ graph' = graph
                   /\ last' = Cmd("rm", "", typed, <<>>, <<>>, "invalid", 1)
    /\ pc' = "layout_loop"
    /\ pre' = Snapshot
    /\ UNCHANGED <<complete, comments, rst_graph, rst_complete>>

\* 'comment' at the layout prompt
LayoutComment ==
    /\ pc = "layout"
    /\ steps < MaxSteps
    /\ steps' = steps + 1
    /\ \E comment \in CommentInputs :
          /\ comments' = Append(comments, comment)
          /\ last' = Cmd("comment", comment, <<>>, <<>>, <<>>, "ok", 2)
    /\ pc' = "layout_loop"
    /\ pre' = Snapshot
    /\ UNCHANGED <<complete, graph, rst_graph, rst_complete>>

\* 'info' or 'cap' at the layout prompt: text or a file is written
LayoutInfo ==
    /\ pc = "layout"
    /\ \E c \in {"info", "cap"} : last' = Simple(c)
    /\ pc' = "layout_loop"
    /\ pre' = Snapshot
    /\ UNCHANGED <<steps, complete, comments, graph, rst_graph, rst_complete>>

\* 'done' at the layout prompt
LayoutDone ==
    /\ pc = "layout"
    /\ complete' = TRUE
    /\ pc' = "idle"
    /\ last' = Simple("done")
    /\ pre' = Snapshot
    /\ UNCHANGED <<steps, comments, graph, rst_graph, rst_complete>>

\* 'next' at the layout prompt
LayoutNext ==
    /\ pc = "layout"
    /\ pc' = "idle"
    /\ last' = Simple("next")
    /\ pre' = Snapshot
    /\ UNCHANGED <<steps, complete, comments, graph, rst_graph, rst_complete>>

\* 'exit' at either prompt: the process ends
Exit ==
    /\ pc \in {"layout", "rst"}
    /\ pc' = "exited"
    /\ last' = Simple("exit")
    /\ pre' = Snapshot
    /\ UNCHANGED <<steps, complete, comments, graph, rst_graph, rst_complete>>

\* annotate_rst that starts from the layout graph of the session
EnterRst_from_layout ==
    /\ pc = "idle"
    /\ rst_complete' = FALSE
    /\ rst_graph' = graph
    /\ pc' = "rst"
    /\ last' = Simple("annotate_rst")
    /\ pre' = Snapshot
    /\ UNCHANGED <<steps, complete, comments, graph>>

\* a call of annotate_rst: a fresh graph of the diagram elements
EnterRst ==
    /\ pc = "idle"
    /\ rst_complete' = FALSE
    /\ rst_graph' = create_graph(Annotation)
    /\ pc' = "rst"
    /\ last' = Simple("annotate_rst")
    /\ pre' = Snapshot
    /\ UNCHANGED <<steps, complete, comments, graph>>

\* the head of the rhetorical loop after a command
RstLoop ==
    /\ pc = "rst_loop"
    /\ ~rst_complete
    /\ pc' = "rst"
    /\ last' = Simple("prompt")
    /\ pre' = Snapshot
    /\ UNCHANGED <<steps, complete, comments, graph, rst_graph, rst_complete>>

\* 'new' at the rhetorical prompt, then the name of a relation, then the
\* prompts of create_relation; the satellite prompt is reached only when the
\* nucleus input has passed
RstNew(inputs) ==
    /\ pc = "rst"
    /\ steps < MaxSteps
    /\ Len(get_node_dict(rst_graph, "relation")) < MaxRelations
    /\ steps' = steps + 1
    /\ \E relation \in RelationInputs :
          IF relation \notin DOMAIN rst_relations
          THEN /\ rst_graph' = rst_graph
               /\ last' = Cmd("new", relation, <<>>, <<>>, <<>>,
                              "invalid_relation", 2)
          ELSE IF rst_relations[relation].kind = "mono"
          THEN \E nucleus \in inputs :
                  IF check_nucleus(rst_graph, nucleus) # "go"
                  THEN LET r == create_mono(rst_graph,
                                    rst_relations[relation].name,
                                    nucleus, <<>>)
                       IN  /\ rst_graph' = r.graph
                           /\ last' = Cmd("new", relation, <<>>, nucleus,
                                          <<>>, r.out, 2 + r.prompts)
                  ELSE \E satellites \in inputs :
                          LET r == create_mono(rst_graph,
                                       rst_relations[relation].name,
                                       nucleus, satellites)
                          IN  /\ rst_graph' = r.graph
                              /\ last' = Cmd("new", relation, <<>>, nucleus,
                                             satellites, r.out,
                                             2 + r.prompts)
          ELSE \E nuclei \in inputs :
                  LET r == create_multi(rst_graph,
                               rst_relations[relation].name, nuclei)
                  IN  /\ rst_graph' = r.graph
                      /\ last' = Cmd("new", relation, nuclei, <<>>, <<>>,
                                     r.out, 2 + r.prompts)
    /\ pc' = "rst_loop"
    /\ pre' = Snapshot
    /\ UNCHANGED <<complete, comments, graph, rst_complete>>

\* RstComment that puts the comment in front of the earlier ones
RstComment_in_front ==
    /\ pc = "rst"
    /\ steps < MaxSteps
    /\ steps' = steps + 1
    /\ \E comment \in CommentInputs :
          /\ comments' = <<comment>> \o comments
          /\ last' = Cmd("comment", comment, <<>>, <<>>, <<>>, "ok", 2)
    /\ pc' = "rst_loop"
    /\ pre' = Snapshot
    /\ UNCHANGED <<complete, graph, rst_graph, rst_complete>>

\* 'comment' at the rhetorical prompt
RstComment ==
    /\ pc = "rst"
    /\ steps < MaxSteps
    /\ steps' = steps + 1
    /\ \E comment \in CommentInputs :
          /\ comments' = Append(comments, comment)
          /\ last' = Cmd("comment", comment, <<>>, <<>>, <<>>, "ok", 2)
    /\ pc' = "rst_loop"
    /\ pre' = Snapshot
    /\ UNCHANGED <<complete, graph, rst_graph, rst_complete>>

\* RstInfo that takes an input that is no command for 'done'
RstInfo_unknown_ends ==
    /\ pc = "rst"
    /\ \E c \in {"info", "relations", "cap", "unknown"} :
          /\ last' = Simple(c)
          /\ rst_complete' = (c = "unknown")
    /\ pc' = "rst_loop"
    /\ pre' = Snapshot
    /\ UNCHANGED <<steps, complete, comments, graph, rst_graph>>

\* 'info', 'relations' or 'cap' at the rhetorical prompt, or an input that
\* is no command
RstInfo ==
    /\ pc = "rst"
    /\ \E c \in {"info", "relations", "cap", "unknown"} : last' = Simple(c)
    /\ pc' = "rst_loop"
    /\ pre' = Snapshot
    /\ UNCHANGED <<steps, complete, comments, graph, rst_graph, rst_complete>>

\* 'done' at the rhetorical prompt: the local flag is set, the method returns
\* and its local variables are gone
RstDone ==
    /\ pc = "rst"
    /\ rst_complete' = TRUE
    /\ rst_graph' = EmptyGraph
    /\ pc' = "idle"
    /\ last' = Simple("done")
    /\ pre' = Snapshot
    /\ UNCHANGED <<steps, complete, comments, graph>>

\* 'next' at the rhetorical prompt
RstNext ==
    /\ pc = "rst"
    /\ rst_graph' = EmptyGraph
    /\ pc' = "idle"
    /\ last' = Simple("next")
    /\ pre' = Snapshot
    /\ UNCHANGED <<steps, complete, comments, graph, rst_complete>>

---------------------------------------------------------------------------
(* Specifications.                                                         *)

LayoutGroupCmd == LayoutGroup(TokenLists(LayoutTokens, 1))
LayoutRmCmd == LayoutRm(TokenLists(RmTokens, 0))
RstNewCmd == RstNew(TokenLists(RstTokens, 0))
SessionGroupCmd == LayoutGroup(TokenLists(SessionLayoutTokens, 1))
SessionRmCmd == LayoutRm(TokenLists(SessionRmTokens, 0))
SessionNewCmd == RstNew(TokenLists(SessionRstTokens, 0))

\* the whole session: both methods, called in any order and any number of
\* times
Next ==
    \/ EnterLayout
    \/ LayoutLoop
    \/ SessionGroupCmd
    \/ SessionRmCmd
    \/ LayoutComment
    \/ LayoutInfo
    \/ LayoutDone
    \/ LayoutNext
    \/ EnterRst
    \/ RstLoop
    \/ SessionNewCmd
    \/ RstComment
    \/ RstInfo
    \/ RstDone
    \/ RstNext
    \/ Exit

Spec == Init /\ [][Next]_vars

\* one call of annotate_layout
NextLayout ==
    \/ EnterLayout
    \/ LayoutLoop
    \/ LayoutGroupCmd
    \/ LayoutRmCmd
    \/ LayoutComment
    \/ LayoutInfo
    \/ LayoutDone
    \/ LayoutNext
    \/ Exit

SpecLayout == Init /\ [][NextLayout]_vars

\* one call of annotate_rst
NextRst ==
    \/ EnterRst
    \/ RstLoop
    \/ RstNewCmd
    \/ RstComment
    \/ RstInfo
    \/ RstDone
    \/ RstNext
    \/ Exit

SpecRst == Init /\ [][NextRst]_vars

\* the relationships an annotation given to the builder may list: an arrow
\* and its head, a linkage through that arrow, a label without a connector
\* field, and a linkage whose connector field is empty
Connections ==
    {[category |-> "arrowHeadTail", origin |-> <<"A", "1">>,
      destination |-> <<"H", "1">>],
     [category |-> "interObjectLinkage", origin |-> <<"T", "1">>,
      destination |-> <<"B", "1">>, connector |-> <<"A", "1">>],
     [category |-> "intraObjectLabel", origin |-> <<"T", "1">>,
      destination |-> <<"I", "0">>],
     [category |-> "interObjectLinkage", origin |-> <<"B", "1">>,
      destination |-> <<"I", "1">>, connector |-> <<>>]}

\* the annotations given to the builder: the elements of Annotation with any
\* of the categories and the relationships left out, and any list of up to
\* MaxConnections relationships
BuildAnnotations ==
    {[k \in keys |-> IF k = "relationships" THEN relations ELSE Annotation[k]] :
        keys \in SUBSET DOMAIN Annotation,
        relations \in UNION {[1..n -> Connections] : n \in 0..MaxConnections}}

\* a call of Draw.draw_graph_from_annotation is about to be made
InitBuild ==
    /\ \E annotation \in BuildAnnotations, draw_edges \in BOOLEAN,
          draw_arrowheads \in BOOLEAN :
          last = [cmd |-> "build", annotation |-> annotation,
                  draw_edges |-> draw_edges,
                  draw_arrowheads |-> draw_arrowheads]
    /\ pc = "build"
    /\ graph = EmptyGraph
    /\ complete = FALSE
    /\ comments = <<>>
    /\ rst_graph = EmptyGraph
    /\ rst_complete = FALSE
    /\ steps = 0
    /\ pre = [graph |-> EmptyGraph, rst_graph |-> EmptyGraph,
              comments |-> <<>>, complete |-> FALSE, rst_complete |-> FALSE]

\* Draw.draw_graph_from_annotation returns the graph or raises
Build ==
    /\ pc = "build"
    /\ LET r == draw_graph_from_annotation(last.annotation, last.draw_edges,
                                           last.draw_arrowheads)
       IN  /\ graph' = r.graph
           /\ pc' = IF r.raised THEN "build_raised" ELSE "built"
    /\ UNCHANGED <<steps, complete, comments, rst_graph, rst_complete, last,
                   pre>>

SpecBuild == InitBuild /\ [][Build]_vars

\* The Group Operator called on its own.  The graphs it is called with: the
\* graph of the elements, that graph with one group, and a graph built with
\* edges and without arrowheads
GroupGraphs ==
    {create_graph(Annotation),
     group_nodes(create_graph(Annotation), create_graph(Annotation),
                 << <<"b", "1">>, <<"t", "1">> >>).graph,
     draw_graph_from_annotation(
         [Annotation EXCEPT !.relationships =
             << [category |-> "arrowHeadTail", origin |-> <<"A", "1">>,
                 destination |-> <<"H", "1">>] >>],
         TRUE, FALSE).graph}

\* the members it is given: element ids in lower and in upper case, an id
\* of kind imageConsts, an arrowhead, and an id that names nothing
MemberTokens ==
    {<<"b", "1">>, <<"T", "1">>, <<"i", "0">>, <<"h", "1">>, <<"z", "z">>}

\* a call self.group_nodes(graph, user_input) is about to be made; the graph
\* passed is self.graph itself (own) or another graph object
InitGroup ==
    /\ graph \in GroupGraphs
    /\ \E own \in BOOLEAN, G \in GroupGraphs,
          user_input \in TokenLists(MemberTokens, 1) :
          /\ own => G = graph
          /\ last = [cmd |-> "group_nodes", own |-> own, graph |-> G,
                     user_input |-> user_input]
    /\ pc = "group"
    /\ complete = FALSE
    /\ comments = <<>>
    /\ rst_graph = EmptyGraph
    /\ rst_complete = FALSE
    /\ steps = 0
    /\ pre = [graph |-> graph, rst_graph |-> EmptyGraph,
              comments |-> <<>>, complete |-> FALSE, rst_complete |-> FALSE]

\* Diagram.group_nodes returns or raises
Group ==
    /\ pc = "group"
    /\ LET r == group_nodes(graph, last.graph, last.user_input)
       IN  /\ graph' = r.graph
           /\ pc' = IF r.raised THEN "group_raised" ELSE "grouped"
    /\ UNCHANGED <<steps, complete, comments, rst_graph, rst_complete, last,
                   pre>>

\* the graph that was passed to Diagram.group_nodes, as the caller sees it
\* after the call: the method writes to self.graph only
passed_graph == IF last.own THEN graph ELSE last.graph

SpecGroup == InitGroup /\ [][Group]_vars

---------------------------------------------------------------------------
(* Properties.                                                             *)

\* a grouping list has just been processed
AfterGroup == pc \in {"layout_loop", "raised"} /\ last.cmd = "group"

\* a new command naming a relation of the given kind has just been processed
AfterNew(kind) ==
    /\ pc = "rst_loop"
    /\ last.cmd = "new"
    /\ last.key \in DOMAIN rst_relations
    /\ rst_relations[last.key].kind = kind

\* the edges of G1 that G0 does not have
new_edges(G0, G1) == G1.edges \ G0.edges

\* every endpoint of the edges added to G0 was a node of G0 or is a node that
\* was added with a kind, as the group and relation nodes are
endpoints_present(G0, G1) ==
    \A e \in new_edges(G0, G1) : \A n \in e :
        n \in node_set(G0) \/ "kind" \in DOMAIN G1.attr[n]

\* C1: every edge added by a grouping or a relation command joins two nodes
\* that were in the graph before the edge was added; adding an edge never
\* brings a node into existence.
C1_NoDanglingEdges ==
    /\ endpoints_present(pre.graph, graph)
    /\ endpoints_present(pre.rst_graph, rst_graph)

\* C2: a grouping list, a nucleus or satellite input or a nuclei input with a
\* token outside the valid identifiers leaves both graphs exactly as they
\* were.
C2_ValidationPrecedesMutation ==
    /\ (AfterGroup /\ ~(set(last.tokens) \subseteq valid_elems(pre.graph)))
          => graph = pre.graph /\ rst_graph = pre.rst_graph
    /\ (pc = "rst_loop" /\ last.cmd = "new"
        /\ ~(set(lower_all(last.nucleus \o last.satellites \o last.tokens))
                \subseteq valid_ids(pre.rst_graph)))
          => graph = pre.graph /\ rst_graph = pre.rst_graph

\* C2 witness: a satellite input that mixes a valid and an invalid token was
\* given for a graph that already holds a relation
C2_Witness ==
    /\ AfterNew("mono")
    /\ last.out = "invalid_satellite"
    /\ Len(last.satellites) = 2
    /\ set(lower_all(last.satellites)) \cap valid_ids(pre.rst_graph) # {}
    /\ get_node_dict(pre.rst_graph, "relation") # <<>>

\* C3: a mononuclear relation given no nucleus or several nuclei reports the
\* arity error, whether or not the tokens are valid, and leaves the graph
\* unchanged; the satellite prompt is not reached.
C3_NucleusArity ==
    (AfterNew("mono") /\ Len(last.nucleus) # 1)
        => /\ last.out = "nucleus_err"
           /\ rst_graph = pre.rst_graph
           /\ last.satellites = <<>>
           /\ last.prompts = 3

\* C3 witness: two nucleus tokens, one of them invalid, were given
C3_Witness ==
    /\ AfterNew("mono")
    /\ Len(last.nucleus) = 2
    /\ ~(set(lower_all(last.nucleus)) \subseteq valid_ids(pre.rst_graph))
    /\ last.out = "nucleus_err"

\* the node a token of the rhetorical phase stands for: the k-th relation
\* node for the alias r<k>, otherwise the node with the upper-cased id
denoted(G, s) ==
    LET relations == relation_keys(G)
    IN  IF \E k \in DOMAIN relations : s = <<"r">> \o decimal(k)
        THEN relations[CHOOSE k \in DOMAIN relations :
                            s = <<"r">> \o decimal(k)]
        ELSE upper(s)

is_alias(G, s) == \E k \in DOMAIN relation_keys(G) : s = <<"r">> \o decimal(k)

\* the member a token of the layout phase stands for: the k-th group node
\* for the alias g<k>, otherwise the token itself
member(G, u) ==
    LET groups == get_node_dict(G, "group")
    IN  IF \E k \in DOMAIN groups : u = <<"g">> \o decimal(k)
        THEN groups[CHOOSE k \in DOMAIN groups : u = <<"g">> \o decimal(k)]
        ELSE u

members(G, tokens) == [i \in DOMAIN tokens |-> member(G, tokens[i])]

\* the nodes of kind imageConsts
const_nodes(G) ==
    {n \in node_set(G) : "kind" \in DOMAIN G.attr[n]
                         /\ G.attr[n]["kind"] = "imageConsts"}

\* some member of the list is of kind imageConsts
has_const(G, list) == \E i \in DOMAIN list : upper(list[i]) \in const_nodes(G)

\* the mononuclear relation just created, with its lower-cased inputs
MonoCreated == AfterNew("mono") /\ last.out = "ok"
MonoNucleus == lower(last.nucleus[1])
MonoSatellites == lower_all(last.satellites)
MonoId ==
    upper(MonoNucleus) \o <<"-">> \o upper(join(<<"+">>, MonoSatellites))

\* the nodes the nucleus and the satellites of that relation are drawn from
MonoEndpoints ==
    {upper(MonoNucleus)}
        \cup {denoted(pre.rst_graph, s) : s \in set(MonoSatellites)}

\* C4 as stated: one valid nucleus and one or more valid satellites add
\* exactly one relation node and exactly 1 + |satellites| edges.
C4_OneNodeAndAllEdges ==
    (MonoCreated /\ Len(last.satellites) >= 1)
        => /\ Len(relation_keys(rst_graph))
                = Len(relation_keys(pre.rst_graph)) + 1
           /\ Cardinality(rst_graph.edges)
                = Cardinality(pre.rst_graph.edges) + 1 + Len(last.satellites)

\* C4 amended: such a command adds at most one relation node and at most
\* 1 + |satellites| edges; when no node with the id of the relation exists
\* yet, it adds exactly one relation node and exactly one edge for each
\* distinct node among the upper-cased nucleus and the nodes the satellites
\* denote, hence 1 + |satellites| edges when these are pairwise distinct.
C4_OneNodeAndDistinctEdges ==
    (MonoCreated /\ Len(last.satellites) >= 1)
        => /\ Len(relation_keys(rst_graph))
                <= Len(relation_keys(pre.rst_graph)) + 1
           /\ Cardinality(new_edges(pre.rst_graph, rst_graph))
                <= 1 + Len(last.satellites)
           /\ ~has_node(pre.rst_graph, MonoId)
                => /\ Len(relation_keys(rst_graph))
                        = Len(relation_keys(pre.rst_graph)) + 1
                   /\ Cardinality(new_edges(pre.rst_graph, rst_graph))
                        = Cardinality(MonoEndpoints)
                   /\ Cardinality(MonoEndpoints) = 1 + Len(last.satellites)
                        => Cardinality(rst_graph.edges)
                             = Cardinality(pre.rst_graph.edges)
                                 + 1 + Len(last.satellites)

\* C4 witness: a relation with a nucleus and two satellites, one of them a
\* relation alias, all denoting different nodes, was created
C4_Witness ==
    /\ MonoCreated
    /\ Len(last.satellites) = 2
    /\ \E s \in set(MonoSatellites) : is_alias(pre.rst_graph, s)
    /\ ~has_node(pre.rst_graph, MonoId)
    /\ Cardinality(MonoEndpoints) = 3
    /\ Cardinality(new_edges(pre.rst_graph, rst_graph)) = 3

\* C5: a multinuclear relation given fewer than two nuclei leaves the
\* rhetorical graph unchanged.
C5_MultinuclearMinimum ==
    (AfterNew("multi") /\ Len(last.tokens) < 2)
        => rst_graph = pre.rst_graph

\* C5 witness: a single valid nucleus was given for a multinuclear relation
C5_Witness ==
    /\ AfterNew("multi")
    /\ Len(last.tokens) = 1
    /\ set(lower_all(last.tokens)) \subseteq valid_ids(pre.rst_graph)
    /\ last.out = "nuclei_err"

\* the grouping list just accepted, aliases replaced by the groups they name
GroupDone == AfterGroup /\ last.out = "ok"
GroupMembers == members(pre.graph, last.tokens)
GroupId == upper(join(<<"+">>, GroupMembers))

\* C6: a grouping list with a member of kind imageConsts adds no node and
\* changes no node, and adds exactly the edges between every member and every
\* imageConsts node of the graph.
C6_ImageConstAbsorption ==
    (GroupDone /\ has_const(pre.graph, GroupMembers))
        => /\ graph.nodes = pre.graph.nodes
           /\ graph.attr = pre.graph.attr
           /\ graph.edges
                = pre.graph.edges
                    \cup {{upper(m), k} : m \in set(GroupMembers),
                                          k \in const_nodes(pre.graph)}

\* C6 witness: a group alias and an imageConsts element were grouped in a
\* graph with two imageConsts nodes
C6_Witness ==
    /\ GroupDone
    /\ has_const(pre.graph, GroupMembers)
    /\ \E i \in DOMAIN last.tokens : GroupMembers[i] # last.tokens[i]
    /\ Cardinality(const_nodes(pre.graph)) = 2
    /\ Cardinality(new_edges(pre.graph, graph)) = 4

\* C7: a grouping list without a member of kind imageConsts adds a node of
\* kind group whose id is the upper-cased members joined by '+' in the order
\* given, an alias standing for the id of its group, and adds an edge between
\* every member and that node.
C7_GroupNode ==
    (GroupDone /\ ~has_const(pre.graph, GroupMembers))
        => /\ node_set(graph) = node_set(pre.graph) \cup {GroupId}
           /\ graph.attr[GroupId] = [kind |-> "group"]
           /\ graph.edges
                = pre.graph.edges
                    \cup {{upper(m), GroupId} : m \in set(GroupMembers)}

\* C7 witness: a group alias followed by an element was grouped
C7_Witness ==
    /\ GroupDone
    /\ ~has_const(pre.graph, GroupMembers)
    /\ Len(last.tokens) = 2
    /\ GroupMembers[1] # last.tokens[1]
    /\ GroupMembers[2] = last.tokens[2]
    /\ GroupMembers[1] # upper(GroupMembers[2])

\* C8: a created mononuclear relation is a node whose id is the upper-cased
\* nucleus, '-', and the upper-cased satellites joined by '+' in the order
\* given; it carries the nucleus, the satellites and the name of the
\* relation, and has an edge to the upper-cased nucleus.
C8_MononuclearNode ==
    MonoCreated
        => /\ has_node(rst_graph, MonoId)
           /\ rst_graph.attr[MonoId]["kind"] = "relation"
           /\ rst_graph.attr[MonoId]["nucleus"] = <<MonoNucleus>>
           /\ rst_graph.attr[MonoId]["satellites"] = MonoSatellites
           /\ rst_graph.attr[MonoId]["name"] = rst_relations[last.key].name
           /\ {upper(MonoNucleus), MonoId} \in rst_graph.edges

\* C8 witness: a relation with two different satellites was created
C8_Witness ==
    /\ MonoCreated
    /\ Len(last.satellites) = 2
    /\ MonoSatellites[1] # MonoSatellites[2]
    /\ ~has_node(pre.rst_graph, MonoId)

\* C9: the edge of a satellite that is a relation alias joins the relation
\* the alias stands for in this cycle, not a node named like the alias, to
\* the new relation; the edge of any other satellite joins the node with the
\* upper-cased id.
C9_RelationChaining ==
    MonoCreated
        => \A s \in set(MonoSatellites) :
              /\ {denoted(pre.rst_graph, s), MonoId} \in rst_graph.edges
              /\ (is_alias(pre.rst_graph, s) /\ s # MonoNucleus)
                    => {upper(s), MonoId} \notin rst_graph.edges

\* C9 witness: a relation alias and an element were given as satellites
C9_Witness ==
    /\ MonoCreated
    /\ \E s \in set(MonoSatellites) :
          is_alias(pre.rst_graph, s) /\ s # MonoNucleus
    /\ \E s \in set(MonoSatellites) : ~is_alias(pre.rst_graph, s)

\* the multinuclear relation just created
MultiCreated == AfterNew("multi") /\ last.out = "ok"
MultiNuclei == lower_all(last.tokens)
MultiId == upper(join(<<"+">>, MultiNuclei))

\* C10: a created multinuclear relation is a node whose id is the upper-cased
\* nuclei joined by '+' in the order given; it carries the nuclei and the name
\* of the relation, and has an edge to the relation each alias among the
\* nuclei stands for and to the upper-cased id of every other nucleus.
C10_MultinuclearNode ==
    MultiCreated
        => /\ has_node(rst_graph, MultiId)
           /\ rst_graph.attr[MultiId]["kind"] = "relation"
           /\ rst_graph.attr[MultiId]["nuclei"] = MultiNuclei
           /\ rst_graph.attr[MultiId]["name"] = rst_relations[last.key].name
           /\ \A n \in set(MultiNuclei) :
                 {denoted(pre.rst_graph, n), MultiId} \in rst_graph.edges
           /\ new_edges(pre.rst_graph, rst_graph)
                 \subseteq {{denoted(pre.rst_graph, n), MultiId} :
                               n \in set(MultiNuclei)}

\* C10 witness: a relation alias and an element were given as nuclei
C10_Witness ==
    /\ MultiCreated
    /\ \E n \in set(MultiNuclei) : is_alias(pre.rst_graph, n)
    /\ \E n \in set(MultiNuclei) : ~is_alias(pre.rst_graph, n)
    /\ ~has_node(pre.rst_graph, MultiId)

\* the tokens stored in the nucleus, satellites and nuclei attributes of a
\* relation node
entries(G, r) ==
    UNION {set(G.attr[r][k]) :
              k \in {"nucleus", "satellites", "nuclei"} \cap DOMAIN G.attr[r]}

\* C11: for every relation node, every token stored in its nucleus,
\* satellites or nuclei attribute stands for a node of the rhetorical graph
\* that has a kind and is joined to the relation node by an edge.
C11_ReferentialIntegrity ==
    \A r \in set(relation_keys(rst_graph)) :
        \A e \in entries(rst_graph, r) :
            LET n == denoted(rst_graph, e)
            IN  /\ has_node(rst_graph, n)
                /\ "kind" \in DOMAIN rst_graph.attr[n]
                /\ {n, r} \in rst_graph.edges


\* the tokens of the scenario of C12
b1_t1 == <<"b", "1", "+", "t", "1">>
B1_T1 == <<"B", "1", "+", "T", "1">>
B1_T1_A1 == <<"B", "1", "+", "T", "1", "-", "A", "1">>

\* C12: grouping [b1, t1] yields the group node B1+T1 with edges to B1 and
\* T1; a mononuclear relation whose nucleus is b1+t1 is then accepted, and
\* with the satellite a1 it yields the relation node B1+T1-A1 with edges to
\* B1+T1 and A1.
C12_EndToEnd ==
    /\ (GroupDone /\ last.tokens = << <<"b", "1">>, <<"t", "1">> >>)
          => /\ has_node(graph, B1_T1)
             /\ graph.attr[B1_T1] = [kind |-> "group"]
             /\ {<<"B", "1">>, B1_T1} \in graph.edges
             /\ {<<"T", "1">>, B1_T1} \in graph.edges
    /\ (AfterNew("mono") /\ last.nucleus = <<b1_t1>>
        /\ has_node(graph, B1_T1))
          => /\ last.out # "invalid_nucleus"
             /\ last.satellites = << <<"a", "1">> >>
                   => /\ has_node(rst_graph, B1_T1_A1)
                      /\ {B1_T1, B1_T1_A1} \in rst_graph.edges
                      /\ {<<"A", "1">>, B1_T1_A1} \in rst_graph.edges


\* the positions in node order of the nodes of a kind
kind_positions(G, kind) ==
    {i \in DOMAIN G.nodes :
        /\ "kind" \in DOMAIN G.attr[G.nodes[i]]
        /\ G.attr[G.nodes[i]]["kind"] = kind}

\* the alias dictionary names the nodes of the kind prefix1, prefix2, ...
\* without a gap, in the order in which the nodes were inserted
numbered_in_order(dict, prefix, G, kind) ==
    LET at == kind_positions(G, kind)
    IN  /\ DOMAIN dict = {prefix \o decimal(k) : k \in 1..Cardinality(at)}
        /\ \A i \in at :
              dict[prefix \o decimal(Cardinality({j \in at : j <= i}))]
                  = G.nodes[i]

\* C13: the group aliases and the relation aliases are determined by the
\* graph alone: g1, g2, ... name the group nodes and r1, r2, ... the relation
\* nodes, numbered from 1 in node insertion order without gaps, and a command
\* cycle that leaves the graph as it was leaves the aliases as they were.
C13_AliasesFromGraph ==
    /\ numbered_in_order(group_dict(graph), <<"g">>, graph, "group")
    /\ numbered_in_order(relation_ix(rst_graph), <<"r">>, rst_graph,
                         "relation")
    /\ graph = pre.graph => group_dict(graph) = group_dict(pre.graph)
    /\ rst_graph = pre.rst_graph
          => relation_ix(rst_graph) = relation_ix(pre.rst_graph)

\* C13 witness: the layout graph holds two groups and the rhetorical graph a
\* relation, after a command that changed neither graph
C13_Witness ==
    /\ Cardinality(kind_positions(graph, "group")) = 2
    /\ Cardinality(kind_positions(rst_graph, "relation")) = 1
    /\ pc = "rst_loop"
    /\ rst_graph = pre.rst_graph


\* an rm command has just removed the groups it named
RmDone == pc = "layout_loop" /\ last.cmd = "rm" /\ last.out = "ok"

\* the groups before the rm command, in alias order, and the numbers of the
\* aliases the command named
RmGroups == get_node_dict(pre.graph, "group")
RmNumbers ==
    {k \in DOMAIN RmGroups :
        <<"g">> \o decimal(k) \in set(lower_all(last.tokens))}

\* C14: after an rm command the remaining groups are numbered anew: a group
\* that was g<j> is g<j-1> when a group with a smaller number was removed and
\* keeps its alias otherwise (in general its number drops by the number of
\* removed groups before it), and no other alias exists.
C14_AliasRenumbering ==
    RmDone
        => /\ \A j \in DOMAIN RmGroups \ RmNumbers :
                 LET a == <<"g">> \o
                          decimal(j - Cardinality({k \in RmNumbers : k < j}))
                 IN  /\ a \in DOMAIN group_dict(graph)
                     /\ group_dict(graph)[a] = RmGroups[j]
           /\ Cardinality(DOMAIN group_dict(graph))
                 = Len(RmGroups) - Cardinality(RmNumbers)

\* C14 witness: g1 was removed from a graph with two groups, and the group
\* that was g2 is now g1
C14_Witness ==
    /\ RmDone
    /\ last.tokens = << <<"g", "1">> >>
    /\ Len(RmGroups) = 2
    /\ group_dict(graph)[<<"g", "1">>] = RmGroups[2]


\* C15: a grouping list is accepted when its lower-cased tokens are valid
\* identifiers, whatever the case it was typed in, and then has the effect
\* of the same list typed in lower case.
C15_LayoutCaseInsensitive ==
    (AfterGroup
     /\ set(lower_all(last.tokens)) \subseteq valid_elems(pre.graph))
        => /\ last.out # "invalid"
           /\ graph = group_nodes(pre.graph, pre.graph,
                          replace_aliases(pre.graph,
                                          lower_all(last.tokens))).graph


\* annotate_layout, or annotate_rst, has just returned on the given command
\* (the rhetorical graph exists only between the call of annotate_rst and its
\* return, and is never empty then)
LayoutEnded(cmd) ==
    pc = "idle" /\ last.cmd = cmd /\ pre.rst_graph = EmptyGraph
RstEnded(cmd) ==
    pc = "idle" /\ last.cmd = cmd /\ pre.rst_graph # EmptyGraph

\* C16: the completion flag of each phase is false at the start, changes
\* only by the done command of its phase, and is never false again once it
\* is true.
C16_CompletionFlag ==
    /\ last.cmd = "init" => ~complete /\ ~rst_complete
    /\ complete # pre.complete => LayoutEnded("done")
    /\ rst_complete # pre.rst_complete => RstEnded("done")
    /\ pre.complete => complete
    /\ pre.rst_complete => rst_complete

\* the part of C16 that is about the flag of the layout phase
C16_LayoutFlag ==
    /\ last.cmd = "init" => ~complete
    /\ complete # pre.complete => LayoutEnded("done")
    /\ pre.complete => complete


\* what the caller of annotate_layout and annotate_rst can read from the
\* Diagram object: its attributes complete, graph and comments
SessionRecord(s) ==
    [complete |-> s.complete, graph |-> s.graph, comments |-> s.comments]

\* C17: in each phase the caller can tell done from next: after done the
\* session records the phase as complete, after next it does not. next
\* leaves the session as it was, so done must leave a record that makes the
\* session differ from that.
C17_DistinctExits ==
    /\ LayoutEnded("done") => complete
    /\ LayoutEnded("next") => ~complete
    /\ RstEnded("next") => SessionRecord(Snapshot) = SessionRecord(pre)
    /\ RstEnded("done") => SessionRecord(Snapshot) # SessionRecord(pre)


\* C18: once the layout phase is marked done, no command and no later call
\* of annotate_layout or annotate_rst changes the layout graph, and the layout
\* prompt is not reached again.
C18_FrozenLayoutGraph ==
    pre.complete
        => /\ graph = pre.graph
           /\ pc \notin {"layout", "layout_loop", "raised"}

\* the layout graph holds a group and the layout phase was marked done
FrozenWithGroup ==
    pre.complete /\ get_node_dict(graph, "group") # <<>>

\* C18 witness: with a group in the layout graph and the phase marked done,
\* annotate_layout was called again and returned at once
C18_Witness ==
    /\ FrozenWithGroup
    /\ last.cmd = "annotate_layout"
    /\ pc = "idle"


\* C19: when annotate_rst returns on done or next, every relation node and
\* every edge created during the call is held in the rhetorical graph of the
\* session, where the caller and a later call of annotate_rst find them.
C19_RstGraphKept ==
    (RstEnded("done") \/ RstEnded("next"))
        => /\ \A r \in set(relation_keys(pre.rst_graph)) :
                 /\ has_node(rst_graph, r)
                 /\ rst_graph.attr[r] = pre.rst_graph.attr[r]
           /\ pre.rst_graph.edges \subseteq rst_graph.edges


\* a command of the layout phase, or of the rhetorical phase, has just been
\* processed
LayoutCommand ==
    pc \in {"layout_loop", "raised"}
        \/ LayoutEnded("done") \/ LayoutEnded("next")
RstCommand == pc = "rst_loop" \/ RstEnded("done") \/ RstEnded("next")

\* C20 as stated: no command of the rhetorical phase changes the layout
\* graph, the layout completion flag or anything else the layout phase reads
\* or writes, which includes the comments; no command of the layout phase
\* changes the rhetorical graph or flag; and the rhetorical graph starts
\* from the elements of the diagram alone.
C20_NoSharedState ==
    /\ RstCommand
          => /\ graph = pre.graph
             /\ complete = pre.complete
             /\ comments = pre.comments
    /\ LayoutCommand
          => /\ rst_graph = pre.rst_graph
             /\ rst_complete = pre.rst_complete
             /\ comments = pre.comments
    /\ (pc = "rst" /\ last.cmd = "annotate_rst")
          => rst_graph = create_graph(Annotation)

\* C20 amended: the comments are shared, both phases append to them;
\* otherwise no command of one phase changes what the other phase reads or
\* writes, and the rhetorical graph starts from the elements of the diagram
\* alone.
C20_OnlyCommentsShared ==
    /\ RstCommand
          => /\ graph = pre.graph
             /\ complete = pre.complete
             /\ \E n \in {0, 1} :
                   /\ Len(comments) = Len(pre.comments) + n
                   /\ SubSeq(comments, 1, Len(pre.comments)) = pre.comments
    /\ LayoutCommand
          => /\ rst_graph = pre.rst_graph
             /\ rst_complete = pre.rst_complete
    /\ (pc = "rst" /\ last.cmd = "annotate_rst")
          => rst_graph = create_graph(Annotation)

\* C20 witness: a relation was created in the rhetorical phase of a session
\* whose layout graph holds a group and whose comments hold a comment made
\* in the layout phase
C20_Witness ==
    /\ pc = "rst_loop"
    /\ last.cmd = "new"
    /\ last.out = "ok"
    /\ get_node_dict(graph, "group") # <<>>
    /\ comments # <<>>


\* the builder has returned or raised
BuildEnded == pc \in {"built", "build_raised"}

\* the annotation with every absent category present and empty
with_empty(annotation) ==
    [k \in DOMAIN annotation \cup set(ParseTargets) |->
        IF k \in DOMAIN annotation THEN annotation[k] ELSE <<>>]

\* C21: when categories are absent from the annotation the build succeeds,
\* and the graph has the nodes and kinds of the graph built from the
\* annotation with those categories present and empty.
C21_AbsentCategories ==
    (BuildEnded
     /\ "relationships" \in DOMAIN last.annotation
     /\ ~(set(ParseTargets) \subseteq DOMAIN last.annotation))
        => /\ pc = "built"
           /\ LET full == draw_graph_from_annotation(
                              with_empty(last.annotation), last.draw_edges,
                              last.draw_arrowheads).graph
              IN  /\ graph.nodes = full.nodes
                  /\ graph.attr = full.attr


\* the edges the rules of C22 give for a list of relationships, applied entry
\* by entry with the side-table of arrows and their heads; an entry whose
\* connector is absent or empty has no connector
RECURSIVE rule_edges(_, _, _)
rule_edges(relations, table, edges) ==
    IF relations = <<>> THEN edges
    ELSE LET a == relations[1]
             tail == a.category = "arrowHeadTail"
             table1 == IF tail THEN (a.origin :> a.destination) @@ table
                       ELSE table
             direct == {{a.origin, a.destination}}
             through ==
                 IF a.connector \in DOMAIN table1
                 THEN {{a.origin, a.connector},
                       {table1[a.connector], a.destination}}
                 ELSE {{a.origin, a.connector},
                       {a.connector, a.destination}}
             has_connector == IF "connector" \in DOMAIN a
                              THEN a.connector # <<>> ELSE FALSE
             added == IF has_connector
                      THEN (IF tail THEN direct ELSE {}) \cup through
                      ELSE direct
         IN  rule_edges(Tail(relations), table1, edges \cup added)

\* C22: with draw_edges true the edges of the built graph are exactly those
\* the rules give for the relationships in their order: an arrowHeadTail
\* entry joins origin and destination and records the head of the arrow; an
\* entry with a connector joins origin and connector, and the destination
\* with the recorded head of the connector or else with the connector; any
\* other entry joins origin and destination.
C22_EdgeRules ==
    (pc = "built" /\ last.draw_edges)
        => graph.edges = rule_edges(last.annotation.relationships, <<>>, {})


\* C23: a graph built with arrowheads excluded has no node for an arrowhead
\* element, and every node of it carries a kind from the element categories,
\* whatever the relationships and whether or not edges are drawn.
C23_NoArrowheadNodes ==
    (pc = "built" /\ ~last.draw_arrowheads)
        => /\ node_set(graph) \cap set(last.annotation.arrowHeads) = {}
           /\ \A n \in node_set(graph) :
                /\ "kind" \in DOMAIN graph.attr[n]
                /\ kind_of(graph, n) \in set(TypeTargets)


\* the graph after the list of the last group command is typed once more
GroupedAgain ==
    group_nodes(graph, graph, replace_aliases(graph, last.tokens)).graph

\* C24: grouping the same list of members twice in succession gives the graph
\* that grouping it once gives (the same nodes in the same order, the same
\* attributes, the same edges): the second list is accepted, stands for the
\* same members, and leaves the graph and the aliases of the groups as the
\* first left them.
C24_GroupingIdempotent ==
    GroupDone
        => /\ set(last.tokens) \subseteq valid_elems(graph)
           /\ replace_aliases(graph, last.tokens)
                = replace_aliases(pre.graph, last.tokens)
           /\ GroupedAgain = graph
           /\ group_dict(GroupedAgain) = group_dict(graph)

\* a list of two members, one of them an alias, has made a new group
C24_Witness ==
    /\ GroupDone
    /\ Len(last.tokens) = 2
    /\ \E i \in DOMAIN last.tokens :
          last.tokens[i] \in DOMAIN group_dict(pre.graph)
    /\ Len(graph.nodes) > Len(pre.graph.nodes)
    /\ GroupedAgain = graph


\* C25: every mononuclear relation node of the rhetorical graph has one
\* nucleus and at least one satellite; a mononuclear new command with a valid
\* nucleus and no satellite creates no relation node and leaves the graph as
\* it was.
C25_MonoHasSatellite ==
    /\ \A n \in node_set(rst_graph) :
          "satellites" \in DOMAIN rst_graph.attr[n]
              => /\ Len(rst_graph.attr[n]["nucleus"]) = 1
                 /\ Len(rst_graph.attr[n]["satellites"]) >= 1
    /\ (/\ AfterNew("mono")
        /\ check_nucleus(pre.rst_graph, last.nucleus) = "go"
        /\ last.satellites = <<>>)
           => rst_graph = pre.rst_graph


RstRejected ==
    \/ last.cmd = "new" /\ last.key \notin DOMAIN rst_relations
    \/ last.cmd = "unknown"

\* C27: in the rhetorical phase a new command whose relation key is not in
\* the catalog, and an input that is no command, leave the rhetorical graph,
\* the comments and the completion flags as they were, and the command loop
\* takes the next command.
C27_RecoveredLocally ==
    RstRejected
        => /\ rst_graph = pre.rst_graph
           /\ comments = pre.comments
           /\ rst_complete = pre.rst_complete
           /\ complete = pre.complete
           /\ pc = "rst_loop"
           /\ ENABLED RstLoop

\* an unknown relation key typed when the graph has a relation and the log
\* has a comment
C27_Witness ==
    /\ last.cmd = "new"
    /\ last.key = "bogus"
    /\ relation_keys(rst_graph) # <<>>
    /\ comments # <<>>


\* the Group Operator has returned or raised
GroupEnded == pc \in {"grouped", "group_raised"}

\* a member of the list names no node of the graph passed to the operator
\* (identifiers are compared in upper case, as the operator looks them up)
UnknownMember ==
    \E i \in DOMAIN last.user_input :
        upper(last.user_input[i]) \notin node_set(last.graph)

\* C28: the Group Operator called with a list in which some member is not a
\* node of the graph raises an error and writes nothing: the graph of the
\* diagram has no new node, no changed node and no new edge.
C28_InvalidMemberRejected ==
    (GroupEnded /\ UnknownMember)
        => /\ pc = "group_raised"
           /\ graph = pre.graph

\* a list with a valid member before the one that names nothing
C28_Witness ==
    /\ pc = "group_raised"
    /\ Len(last.user_input) = 2
    /\ upper(last.user_input[1]) \in node_set(last.graph)
    /\ upper(last.user_input[2]) \notin node_set(last.graph)
    /\ last.graph = pre.graph
    /\ graph = pre.graph


\* C29: after an accepted group command, whatever the length of its list,
\* every node the graph had before has the kind it had, and the group node
\* is either new or was a group already.
C29_ExistingNodesKept ==
    GroupDone
        => /\ \A n \in node_set(pre.graph) :
                /\ n \in node_set(graph)
                /\ kind_of(graph, n) = kind_of(pre.graph, n)
           /\ ~has_const(pre.graph, GroupMembers)
                => \/ GroupId \notin node_set(pre.graph)
                   \/ kind_of(pre.graph, GroupId) = "group"


\* C30: in the layout phase every element node of the initial graph stays a
\* node of the layout graph with the kind it had, whatever commands have been
\* typed; rm deletes only nodes that grouping created.
C30_BaseElementsPreserved ==
    /\ \A n \in node_set(create_graph(Annotation)) :
          /\ n \in node_set(graph)
          /\ kind_of(graph, n) = kind_of(create_graph(Annotation), n)
    /\ (RmDone /\ last.out = "ok")
          => (node_set(pre.graph) \ node_set(graph))
                 \cap node_set(create_graph(Annotation)) = {}


\* an rm command has just been processed; the groups its tokens name among
\* the aliases the graph had before it
AfterRm == pc = "layout_loop" /\ last.cmd = "rm"
RmAliases == DOMAIN group_dict(pre.graph)
RmAllValid == \A t \in set(last.tokens) : lower(t) \in RmAliases
RmNamed ==
    {group_dict(pre.graph)[lower(t)] :
        t \in {u \in set(last.tokens) : lower(u) \in RmAliases}}

\* C31: when every token after rm is an alias of a group, the groups named
\* and the edges at them are removed and every other node, attribute and
\* edge stays; when some token is no alias, nothing is removed, the groups
\* named by the other tokens included.
C31_RmAllOrNothing ==
    AfterRm
        => IF RmAllValid
           THEN /\ graph.nodes
                     = filter_seq(pre.graph.nodes,
                                  node_set(pre.graph) \ RmNamed)
                /\ \A n \in node_set(graph) :
                      graph.attr[n] = pre.graph.attr[n]
                /\ DOMAIN graph.attr = node_set(graph)
                /\ graph.edges
                     = {e \in pre.graph.edges : e \cap RmNamed = {}}
           ELSE graph = pre.graph

\* rm with an alias of a group and a token that is no alias
C31_Witness ==
    /\ AfterRm
    /\ ~RmAllValid
    /\ RmNamed # {}
    /\ graph = pre.graph


\* a cycle of the command loop of the rhetorical phase has just ended
RstCycle == pc = "rst_loop"

\* C32: within a rhetorical phase a relation alias keeps its meaning: the
\* relation node that r<k> stood for before a command is the one it stands
\* for after it, whatever the command was, a new command that creates a
\* relation whose id exists already included.
C32_RelationAliasesStable ==
    RstCycle
        => \A a \in DOMAIN relation_ix(pre.rst_graph) :
              /\ a \in DOMAIN relation_ix(rst_graph)
              /\ relation_ix(rst_graph)[a] = relation_ix(pre.rst_graph)[a]

\* a relation is created again under the id of the relation r1
C32_Witness ==
    /\ RstCycle
    /\ last.cmd = "new"
    /\ last.out = "ok"
    /\ relation_keys(pre.rst_graph) # <<>>
    /\ relation_keys(rst_graph) = relation_keys(pre.rst_graph)
    /\ \/ AfterNew("mono") /\ MonoId = relation_keys(pre.rst_graph)[1]
       \/ AfterNew("multi") /\ MultiId = relation_keys(pre.rst_graph)[1]


\* a new command has created a relation
RelationCreated == pc = "rst_loop" /\ last.cmd = "new" /\ last.out = "ok"

\* C33: a relation node stays as it was created: after a successful new
\* command every relation node the graph had before has the name and the
\* nucleus and satellites, or nuclei, it had, and the graph has one relation
\* node more.
C33_RelationsImmutable ==
    RelationCreated
        => /\ \A n \in set(relation_keys(pre.rst_graph)) :
                 rst_graph.attr[n] = pre.rst_graph.attr[n]
           /\ Len(relation_keys(rst_graph))
                = Len(relation_keys(pre.rst_graph)) + 1


\* lists another command could have named its members with: up to three
\* tokens among element ids, a group or relation alias and the lower-cased
\* id of a compound node
OtherTokens ==
    {<<"b", "1">>, <<"t", "1">>, <<"a", "1">>, <<"g", "1">>, <<"r", "1">>,
     <<"b", "1", "+", "t", "1">>}
OtherLists == UNION {[1..n -> OtherTokens] : n \in 1..3}

\* a resolved list of members, in upper case
resolved(list) == [i \in DOMAIN list |-> upper(list[i])]

\* C34: a compound id stands for one selection of members only: no group
\* command with another resolved list of members gives the id of the group
\* just made, and no relation command with another nucleus and satellites,
\* or other nuclei, gives the id of the relation just created.
C34_IdsIdentifyMembers ==
    /\ (GroupDone /\ ~has_const(pre.graph, GroupMembers))
          => \A other \in OtherLists :
                (/\ set(other) \subseteq valid_elems(pre.graph)
                 /\ resolved(replace_aliases(pre.graph, other))
                      # resolved(replace_aliases(pre.graph, last.tokens)))
                    => group_name(replace_aliases(pre.graph, other))
                         # group_name(replace_aliases(pre.graph,
                                                      last.tokens))
    /\ MonoCreated
          => \A nucleus \in [1..1 -> OtherTokens], satellites \in OtherLists :
                (/\ check_nucleus(pre.rst_graph, nucleus) = "go"
                 /\ check_satellites(pre.rst_graph, satellites) = "go"
                 /\ <<lower_all(nucleus), lower_all(satellites)>>
                      # <<lower_all(last.nucleus),
                          lower_all(last.satellites)>>)
                    => mono_name(lower_all(nucleus), lower_all(satellites))
                         # mono_name(lower_all(last.nucleus),
                                     lower_all(last.satellites))
    /\ MultiCreated
          => \A nuclei \in OtherLists :
                (/\ check_nuclei(pre.rst_graph, nuclei) = "go"
                 /\ lower_all(nuclei) # lower_all(last.tokens))
                    => multi_name(lower_all(nuclei))
                         # multi_name(lower_all(last.tokens))


\* C35: Diagram.group_nodes acts on the graph it is given as Annotate.group_nodes
\* does: called with equal graphs and equal lists of members both raise or
\* both return, and they leave equal graphs, whether or not the graph passed
\* is the layout graph of the diagram.
C35_ActsOnPassedGraph ==
    GroupEnded
        => LET r == annotate_group_nodes(last.graph, last.user_input)
           IN  /\ (pc = "group_raised") = r.raised
               /\ passed_graph = r.graph

===========================================================================
